---- MODULE Spec2Model ----
(***************************************************************************)
(* machlist: one run of the command line tool of src/main.rs.              *)
(*                                                                         *)
(* A run reads its command line, loads the TOML inventory, resolves the    *)
(* username, looks the machine (and, for a tunnel, the resource) up,       *)
(* builds the ssh option list and replaces itself by ssh or scp.           *)
(*                                                                         *)
(* Strings are TLA+ strings; Option<T> is None or Some(v); a Result is     *)
(* Ok(v), Err(message) or, for a Rust panic (expect on None), Panic(msg).  *)
(***************************************************************************)
EXTENDS Integers, Sequences, FiniteSets, TLC

VARIABLES
    argv,        \* the command line, as clap hands it to main
    home_dir,    \* what std::env::home_dir() answers
    environ,     \* the process environment: variable name -> value
    fs,          \* the file system: path -> Option(text of the file)
    pc,          \* where the run is
    common,      \* CommonArgs {verbose, res_file}
    target_env,  \* Option: the environment the subcommand works on
    resources,   \* Option: the parsed inventory (struct Resource)
    user,        \* Option: the resolved username
    local_port,  \* Option: tunnel's local port override, parsed
    def,         \* Option: tunnel's ResourceDef
    ssh_opt,     \* Option: struct Ssh {args, dest}
    command,     \* Option: the external process the run was replaced by
    stdout,      \* the lines printed
    outcome      \* None while running or after success, else Err or Panic

vars == <<argv, home_dir, environ, fs, pc, common, target_env, resources, user,
          local_port, def, ssh_opt, command, stdout, outcome>>

----------------------------------------------------------------------------
(* Option and Result *)

None == [some |-> FALSE]

Some(v) == [some |-> TRUE, val |-> v]

Ok(v) == [tag |-> "Ok", val |-> v]

Err(m) == [tag |-> "Err", msg |-> m]

Panic(m) == [tag |-> "Panic", msg |-> m]

----------------------------------------------------------------------------
(* Bounds of the model: how many of the sample values below are drawn. *)

NumUsernames == 3

NumPorts == 2

NumLocalPorts == 4

(* u16::MAX, the largest port *)
U16Max == 65535

----------------------------------------------------------------------------
(* Pure helpers of the program *)

\* home(): panics when no home directory can be resolved
home(h) == IF h.some THEN Ok(h.val) ELSE Panic("HOME directory")

\* PathBuf::push of a relative component
push(path, comp) == path \o "/" \o comp

ssh_dir(h) == push(h, ".ssh")

machlist_local(h) == push(h, ".machlist/resources.toml")

\* str::strip_prefix
strip_prefix(s, prefix) ==
    IF Len(s) >= Len(prefix) /\ SubSeq(s, 1, Len(prefix)) = prefix
    THEN Some(SubSeq(s, Len(prefix) + 1, Len(s)))
    ELSE None

user_host(u, host) ==
    IF u.some THEN u.val \o "@" \o host ELSE host

Digits == "0123456789"

IsDigit(c) == \E d \in 0..9 : SubSeq(Digits, d + 1, d + 1) = c

DigitVal(c) == CHOOSE d \in 0..9 : SubSeq(Digits, d + 1, d + 1) = c

\* Display of an unsigned integer: its decimal digits, no sign, no padding
RECURSIVE fmt_u16(_)
fmt_u16(n) ==
    IF n < 10 THEN SubSeq(Digits, n + 1, n + 1)
    ELSE fmt_u16(n \div 10) \o SubSeq(Digits, (n % 10) + 1, (n % 10) + 1)

\* the digits of s read left to right on top of acc; -1 on a character that is
\* no digit or once the value leaves u16
RECURSIVE parse_digits(_, _)
parse_digits(s, acc) ==
    IF s = "" THEN acc
    ELSE IF ~IsDigit(Head(s)) THEN -1
    ELSE LET v == acc * 10 + DigitVal(Head(s)) IN
         IF v > U16Max THEN -1 ELSE parse_digits(Tail(s), v)

\* u16::from_str: an optional '+', then at least one digit, value <= u16::MAX
u16_from_str(s) ==
    LET digits == IF s # "" /\ Head(s) = "+" THEN Tail(s) ELSE s IN
    IF digits = "" THEN Err("invalid port")
    ELSE IF parse_digits(digits, 0) < 0 THEN Err("invalid port")
    ELSE Ok(parse_digits(digits, 0))

\* std::env::var
env_var(env, name) ==
    IF name \in DOMAIN env THEN Ok(env[name]) ELSE Err("environment variable not found")

\* std::fs::read_to_string
read_to_string(files, file) ==
    IF file \in DOMAIN files /\ files[file].some
    THEN Ok(files[file].val) ELSE Err("No such file or directory")

\* toml::de::from_str into struct Resource: username is an Option and may be
\* missing; server and resource are maps without a default, so the derived
\* Deserialize requires both keys
from_str(content) ==
    IF ~content.toml THEN Err("invalid TOML")
    ELSE IF ~content.server.some THEN Err("missing field server")
    ELSE IF ~content.resource.some THEN Err("missing field resource")
    ELSE Ok([username |-> content.username,
             server |-> content.server.val,
             resource |-> content.resource.val])

parse_resources(files, file) ==
    LET content == read_to_string(files, file) IN
    IF content.tag # "Ok"
    THEN Err("Failed to parse resource file " \o file)
    ELSE from_str(content.val)

get_target_env(res, env) ==
    IF env \in DOMAIN res.server THEN Ok(res.server[env])
    ELSE Err("cannot find specified target environment in servers")

get_target_env_resources(res, env) ==
    IF env \in DOMAIN res.resource THEN Ok(res.resource[env])
    ELSE Err("cannot find specified target environment in resources")

\* get_username without the env: case: every directive is a literal name
get_username_verbatim(res, env) ==
    IF ~res.username.some THEN Ok(None) ELSE Ok(Some(res.username.val))

get_username(res, env) ==
    IF ~res.username.some THEN Ok(None)
    ELSE LET u == res.username.val
             env_name == strip_prefix(u, "env:") IN
         IF env_name.some
         THEN IF env_var(env, env_name.val).tag = "Ok"
              THEN Ok(Some(env_var(env, env_name.val).val))
              ELSE Err("Cannot find environment variable " \o env_name.val)
         ELSE Ok(Some(u))

get_machine(envdef, machine_name) ==
    IF machine_name \in DOMAIN envdef THEN Ok(envdef[machine_name])
    ELSE Err("cannot find " \o machine_name)

unwrap_or(o, d) == IF o.some THEN o.val ELSE d

\* list_non_proxies with the default of an unset proxy flag turned around
list_non_proxies_unset_hidden(envdef) ==
    {k \in DOMAIN envdef : ~unwrap_or(envdef[k].proxy, TRUE)}

\* the keys list_non_proxies iterates over (a HashMap: in no fixed order)
list_non_proxies(envdef) ==
    {k \in DOMAIN envdef : ~unwrap_or(envdef[k].proxy, FALSE)}

get_resource(defs, resource_name) ==
    IF resource_name \in DOMAIN defs THEN Ok(defs[resource_name])
    ELSE Err("cannot find resource " \o resource_name)

\* jump_args with a jump machine without ip left out instead of refused
jump_args_skip(u, envdef, machine_def) ==
    IF ~machine_def.jump.some THEN Ok(<<>>)
    ELSE LET jump == get_machine(envdef, machine_def.jump.val) IN
         IF jump.tag # "Ok" THEN jump
         ELSE IF ~jump.val.ip.some THEN Ok(<<>>)
         ELSE Ok(<<"-J", user_host(u, jump.val.ip.val)>>)

\* jump_args following the jump machine's own jump field one level further
jump_args_chained(u, envdef, machine_def) ==
    IF ~machine_def.jump.some THEN Ok(<<>>)
    ELSE LET jump == get_machine(envdef, machine_def.jump.val) IN
         IF jump.tag # "Ok" THEN jump
         ELSE IF ~jump.val.ip.some THEN Panic("jump proxy to have an ip")
         ELSE IF ~jump.val.jump.some
         THEN Ok(<<"-J", user_host(u, jump.val.ip.val)>>)
         ELSE LET next == get_machine(envdef, jump.val.jump.val) IN
              IF next.tag # "Ok" THEN next
              ELSE IF ~next.val.ip.some THEN Panic("jump proxy to have an ip")
              ELSE Ok(<<"-J", user_host(u, next.val.ip.val),
                        "-J", user_host(u, jump.val.ip.val)>>)

\* the jump option of ssh_login: nothing without a jump field, else the looked
\* up machine's ip behind -J; the lookup fails, and a jump machine without ip
\* panics
jump_args(u, envdef, machine_def) ==
    IF ~machine_def.jump.some THEN Ok(<<>>)
    ELSE LET jump == get_machine(envdef, machine_def.jump.val) IN
         IF jump.tag # "Ok" THEN jump
         ELSE IF ~jump.val.ip.some THEN Panic("jump proxy to have an ip")
         ELSE Ok(<<"-J", user_host(u, jump.val.ip.val)>>)

\* ssh_dest with an empty host instead of the error
ssh_dest_no_bail(u, machine_def) ==
    IF machine_def.ip.some THEN Ok(user_host(u, machine_def.ip.val))
    ELSE IF machine_def.name.some THEN Ok(user_host(u, machine_def.name.val))
    ELSE Ok(user_host(u, ""))

\* ssh_dest with name tried before ip
ssh_dest_name_first(u, machine_def) ==
    IF machine_def.name.some THEN Ok(user_host(u, machine_def.name.val))
    ELSE IF machine_def.ip.some THEN Ok(user_host(u, machine_def.ip.val))
    ELSE Err("targetted machine doesn't have IP or name")

\* the destination of ssh_login
ssh_dest(u, machine_def) ==
    IF machine_def.ip.some THEN Ok(user_host(u, machine_def.ip.val))
    ELSE IF machine_def.name.some THEN Ok(user_host(u, machine_def.name.val))
    ELSE Err("targetted machine doesn't have IP or name")

ssh_login(h, u, res, env, machine_name) ==
    LET envdef == get_target_env(res, env) IN
    IF envdef.tag # "Ok" THEN envdef ELSE
    LET machine_def == get_machine(envdef.val, machine_name) IN
    IF machine_def.tag # "Ok" THEN machine_def ELSE
    IF home(h).tag # "Ok" THEN home(h) ELSE
    LET hostfile == push(ssh_dir(home(h).val), "known_hosts_machlist_" \o env)
        user_known_host_arg == "-oUserKnownHostsFile=" \o hostfile
        jump == jump_args(u, envdef.val, machine_def.val) IN
    IF jump.tag # "Ok" THEN jump ELSE
    LET dest == ssh_dest(u, machine_def.val) IN
    IF dest.tag # "Ok" THEN dest ELSE
    Ok([args |-> <<user_known_host_arg>> \o jump.val, dest |-> dest.val])

----------------------------------------------------------------------------
(* The sample values the runs are drawn from *)

Home == "/home/u"

\* the path given with -r
ExplicitFile == "/etc/inventory.toml"

\* the file of the working directory that parse_resources' comment names
LocalFile == "./machlist-resources.toml"

HomeFile == machlist_local(Home)

\* the default of -t/--target
DEFAULT_ENV == "alpha"

UsernameSamples == <<"env:F", "al", "env", "env:", "xenv:F">>

Usernames == {None} \cup {Some(UsernameSamples[i]) : i \in 1..NumUsernames}

EmptyEnviron == [n \in {} |-> ""]

Environs == {EmptyEnviron, "F" :> "bob", "F" :> "bob" @@ "al" :> "eve"}

PortSamples == <<5432, 80, 65535, 0>>

Ports == {PortSamples[i] : i \in 1..NumPorts}

LocalPortSamples == <<"9999", "65536", "+80", "0080", "x", "">>

LocalPorts == {None} \cup {Some(LocalPortSamples[i]) : i \in 1..NumLocalPorts}

\* every ServerDef of the target machine "a" and of the jump machine "j"
TargetDefs ==
    [ip : {None, Some("10.0.0.5")}, name : {None, Some("a.internal")},
     jump : {None, Some("j"), Some("ghost")},
     proxy : {None, Some(FALSE), Some(TRUE)}]

JumpDefs ==
    [ip : {None, Some("10.0.0.1")}, name : {None, Some("j.internal")},
     jump : {None, Some("ghost")}, proxy : {None, Some(TRUE)}]

BaseA == [ip |-> Some("10.0.0.5"), name |-> Some("a.internal"),
          jump |-> Some("j"), proxy |-> None]

BaseJ == [ip |-> Some("10.0.0.1"), name |-> Some("j.internal"),
          jump |-> None, proxy |-> Some(TRUE)]

ProdEnv == "a" :> [ip |-> Some("10.1.0.5"), name |-> None, jump |-> None,
                   proxy |-> None]

\* the server section: environment alpha with machines a and j, and prod
Servers(a, j) == "alpha" :> ("a" :> a @@ "j" :> j) @@ "prod" :> ProdEnv

ResourceDefs == [server : {"a", "zz"}, at : {"127.0.0.1"}, port : Ports]

NoResources == [e \in {} |-> [n \in {} |-> 0]]

Resources(d) == "alpha" :> ("db" :> d)

BaseResources == Resources([server |-> "a", at |-> "127.0.0.1", port |-> PortSamples[1]])

\* the text of an inventory file: not TOML at all, or a TOML document with
\* each of its three top-level keys present or not
Malformed == [toml |-> FALSE]

Doc(u, s, r) == [toml |-> TRUE, username |-> u, server |-> s, resource |-> r]

BaseDoc(u) == Doc(u, Some(Servers(BaseA, BaseJ)), Some(BaseResources))

Fs(explicit, local, homefile) ==
    ExplicitFile :> explicit @@ LocalFile :> local @@ HomeFile :> homefile

Argv(r, v, c, t, m, p, res, lp) ==
    [res_file |-> r, verbose |-> v, cmd |-> c, target_env |-> t, machine |-> m,
     path |-> p, resource |-> res, local_port |-> lp]

TargetEnvs == {None, Some("prod"), Some("nope")}

\* the command lines of one subcommand each, with -r and -v as given
MachineArgvs(r, v) ==
    {Argv(r, v, c, t, m, IF c = "shell" THEN "" ELSE "f.txt", "", None) :
        c \in {"shell", "copy-from", "copy-to"}, t \in TargetEnvs,
        m \in {"a", "j", "zz"}}

TunnelArgvs(r, v) ==
    {Argv(r, v, "tunnel", t, "", "", res, lp) :
        t \in TargetEnvs, res \in {"db", "nope"}, lp \in LocalPorts}

OtherArgvs(r, v) ==
    {Argv(r, v, "list", t, "", "", "", None) : t \in TargetEnvs \cup {Some("alpha")}}
    \cup {Argv(r, v, "", None, "", "", "", None)}

AllArgvs(r, v) == MachineArgvs(r, v) \cup TunnelArgvs(r, v) \cup OtherArgvs(r, v)

Scenario(a, h, e, f) == [argv |-> a, home_dir |-> h, environ |-> e, fs |-> f]

\* every server section, with and without a username, for each subcommand
PlanScenarios ==
    {Scenario(a, Some(Home), EmptyEnviron,
              Fs(None, None, Some(Doc(u, Some(Servers(da, dj)), Some(BaseResources))))) :
        a \in {x \in AllArgvs(None, 0) :
                   /\ x.cmd # ""
                   /\ x.target_env = IF x.cmd = "list" THEN Some("alpha") ELSE None
                   /\ x.machine \in {"a", ""}
                   /\ x.resource \in {"db", ""}
                   /\ x.local_port = None},
        u \in {None, Some("al")}, da \in TargetDefs, dj \in JumpDefs}

\* every username directive under every process environment
UserScenarios ==
    {Scenario(a, Some(Home), e, Fs(None, None, Some(BaseDoc(u)))) :
        a \in {x \in AllArgvs(None, 0) :
                   x.target_env = None /\ x.local_port = None},
        u \in Usernames, e \in Environs}

\* every command line against every layout of the three inventory files,
\* each file with a text of its own
FileScenarios ==
    {Scenario(a, h, EmptyEnviron, Fs(fe, fl, fh)) :
        a \in UNION {AllArgvs(r, v) : r \in {None, Some(ExplicitFile)}, v \in {0, 1}},
        h \in {None, Some(Home)},
        fe \in {None, Some(BaseDoc(Some("explicit"))), Some(Malformed)},
        fl \in {None, Some(BaseDoc(Some("local")))},
        fh \in {None, Some(BaseDoc(Some("home"))), Some(Malformed)}}

\* every command line against every resource section, the missing one included
ResourceScenarios ==
    {Scenario(a, Some(Home), EmptyEnviron, Fs(None, None, Some(d))) :
        a \in AllArgvs(None, 0),
        d \in {Doc(None, s, r) :
                  s \in {None, Some(Servers(BaseA, BaseJ))},
                  r \in {None, Some(NoResources)}
                        \cup {Some(Resources(rd)) : rd \in ResourceDefs}}}

Scenarios == PlanScenarios \cup UserScenarios \cup FileScenarios \cup ResourceScenarios

Init ==
    /\ \E s \in Scenarios :
        /\ argv = s.argv
        /\ home_dir = s.home_dir
        /\ environ = s.environ
        /\ fs = s.fs
    /\ pc = "main"
    /\ common = None
    /\ target_env = None
    /\ resources = None
    /\ user = None
    /\ local_port = None
    /\ def = None
    /\ ssh_opt = None
    /\ command = None
    /\ stdout = <<>>
    /\ outcome = None

----------------------------------------------------------------------------
(* The steps of a run *)

inputs == <<argv, home_dir, environ, fs>>

\* a step that returns an error (the ? operator, bail!) or panics: the run is
\* over; outcome keeps the result and the step it came from
Fail(r) ==
    /\ pc' = IF r.tag = "Panic" THEN "panic" ELSE "error"
    /\ outcome' = Some([tag |-> r.tag, msg |-> r.msg, at |-> pc])

\* main: the default of -r (machlist_local) and the dispatch on the subcommand
Main ==
    /\ pc = "main"
    /\ LET h == home(home_dir) IN
       IF h.tag # "Ok"
       THEN Fail(h) /\ UNCHANGED <<common, target_env>>
       ELSE /\ common' = Some([verbose |-> argv.verbose,
                               res_file |-> unwrap_or(argv.res_file,
                                                      machlist_local(h.val))])
            /\ IF argv.cmd \in {"shell", "copy-from", "copy-to"}
               THEN /\ target_env' = Some(unwrap_or(argv.target_env, DEFAULT_ENV))
                    /\ pc' = "parse"
                    /\ UNCHANGED outcome
               ELSE IF argv.cmd = "list"
               THEN /\ target_env' = argv.target_env
                    /\ pc' = "parse"
                    /\ UNCHANGED outcome
               ELSE IF argv.cmd = "tunnel"
               THEN /\ target_env' = Some(unwrap_or(argv.target_env, DEFAULT_ENV))
                    /\ pc' = "port"
                    /\ UNCHANGED outcome
               ELSE /\ Fail(Err("No command specified"))
                    /\ UNCHANGED target_env
    /\ UNCHANGED <<inputs, resources, user, local_port, def, ssh_opt, command, stdout>>

\* tunnel: the local port argument is parsed before anything is loaded
ParseLocalPort ==
    /\ pc = "port"
    /\ IF ~argv.local_port.some
       THEN pc' = "parse" /\ UNCHANGED <<local_port, outcome>>
       ELSE LET p == u16_from_str(argv.local_port.val) IN
            IF p.tag = "Ok"
            THEN /\ local_port' = Some(p.val)
                 /\ pc' = "parse"
                 /\ UNCHANGED outcome
            ELSE /\ Fail(Panic("local port is not valid port"))
                 /\ UNCHANGED local_port
    /\ UNCHANGED <<inputs, common, target_env, resources, user, def, ssh_opt,
                   command, stdout>>

\* every subcommand: let resources = parse_resources(&common.res_file)?
ParseResources ==
    /\ pc = "parse"
    /\ LET r == parse_resources(fs, common.val.res_file) IN
       IF r.tag = "Ok"
       THEN /\ resources' = Some(r.val)
            /\ pc' = IF argv.cmd = "list" THEN "list" ELSE "username"
            /\ UNCHANGED outcome
       ELSE Fail(r) /\ UNCHANGED resources
    /\ UNCHANGED <<inputs, common, target_env, user, local_port, def, ssh_opt,
                   command, stdout>>

\* shell, copy_from, copy_to, tunnel: let user = resources.get_username()?
GetUsername ==
    /\ pc = "username"
    /\ LET r == get_username(resources.val, environ) IN
       IF r.tag = "Ok"
       THEN /\ user' = r.val
            /\ pc' = IF argv.cmd = "tunnel" THEN "resource" ELSE "login"
            /\ UNCHANGED outcome
       ELSE Fail(r) /\ UNCHANGED user
    /\ UNCHANGED <<inputs, common, target_env, resources, local_port, def, ssh_opt,
                   command, stdout>>

\* tunnel: the resource lookup and the default of the local port
GetResource ==
    /\ pc = "resource"
    /\ LET defs == get_target_env_resources(resources.val, target_env.val) IN
       IF defs.tag # "Ok"
       THEN Fail(defs) /\ UNCHANGED <<def, local_port>>
       ELSE LET d == get_resource(defs.val, argv.resource) IN
            IF d.tag # "Ok"
            THEN Fail(d) /\ UNCHANGED <<def, local_port>>
            ELSE /\ def' = Some(d.val)
                 /\ local_port' = Some(unwrap_or(local_port, d.val.port))
                 /\ pc' = "login"
                 /\ UNCHANGED outcome
    /\ UNCHANGED <<inputs, common, target_env, resources, user, ssh_opt, command,
                   stdout>>

\* the machine the plan is built for
machine_name == IF argv.cmd = "tunnel" THEN def.val.server ELSE argv.machine

\* shell, copy_from, copy_to, tunnel: ssh_login(..)? and the line printed after it
SshLogin ==
    /\ pc = "login"
    /\ LET r == ssh_login(home_dir, user, resources.val, target_env.val, machine_name) IN
       IF r.tag = "Ok"
       THEN /\ ssh_opt' = Some(r.val)
            /\ stdout' = Append(stdout,
                  IF argv.cmd = "tunnel"
                  THEN "tunneling to target environment=" \o argv.resource
                       \o " resource=" \o machine_name
                       \o " at port " \o fmt_u16(local_port.val)
                  ELSE "connecting target environment=" \o target_env.val
                       \o " dest=" \o machine_name)
            /\ pc' = "exec"
            /\ UNCHANGED outcome
       ELSE Fail(r) /\ UNCHANGED <<ssh_opt, stdout>>
    /\ UNCHANGED <<inputs, common, target_env, resources, user, local_port, def,
                   command>>

\* arg_forwarding with the local port on both sides
arg_forwarding_local(lp, d) == fmt_u16(lp) \o ":" \o d.at \o ":" \o fmt_u16(lp)

\* tunnel's forwarding argument
arg_forwarding(lp, d) == fmt_u16(lp) \o ":" \o d.at \o ":" \o fmt_u16(d.port)

\* what follows the options of ssh_login on the command line
tail_args ==
    IF argv.cmd = "shell" THEN <<ssh_opt.val.dest>>
    ELSE IF argv.cmd = "copy-from"
    THEN <<ssh_opt.val.dest \o ":" \o argv.path, "./">>
    ELSE IF argv.cmd = "copy-to"
    THEN <<argv.path, ssh_opt.val.dest \o ":">>
    ELSE <<"-N", "-L", arg_forwarding(local_port.val, def.val), ssh_opt.val.dest>>

\* shell, copy_from, copy_to, tunnel: the command is built and exec replaces
\* the process
Exec ==
    /\ pc = "exec"
    /\ command' = Some(
          [program |-> IF argv.cmd \in {"shell", "tunnel"} THEN "ssh" ELSE "scp",
           args |-> (IF common.val.verbose > 0 THEN <<"-v">> ELSE <<>>)
                    \o ssh_opt.val.args \o tail_args])
    /\ pc' = "launched"
    /\ UNCHANGED <<inputs, common, target_env, resources, user, local_port, def,
                   ssh_opt, stdout, outcome>>

\* the orders a HashMap may iterate a key set in
Orders(S) ==
    {s \in [1..Cardinality(S) -> S] : {s[i] : i \in 1..Cardinality(S)} = S}

\* list: the machines of one environment or the environments
List ==
    /\ pc = "list"
    /\ IF target_env.some
       THEN LET envdef == get_target_env(resources.val, target_env.val) IN
            IF envdef.tag # "Ok"
            THEN Fail(envdef) /\ UNCHANGED stdout
            ELSE /\ \E s \in Orders(list_non_proxies(envdef.val)) : stdout' = s
                 /\ pc' = "done"
                 /\ UNCHANGED outcome
       ELSE /\ \E s \in Orders(DOMAIN resources.val.server) :
                  stdout' = <<"listing all target environments">> \o s
            /\ pc' = "done"
            /\ UNCHANGED outcome
    /\ UNCHANGED <<inputs, common, target_env, resources, user, local_port, def,
                   ssh_opt, command>>

Next ==
    \/ Main
    \/ ParseLocalPort
    \/ ParseResources
    \/ GetUsername
    \/ GetResource
    \/ SshLogin
    \/ Exec
    \/ List

Spec == Init /\ [][Next]_vars

----------------------------------------------------------------------------
(* What the properties talk about *)

FailedAt(step) == outcome.some /\ outcome.val.at = step

\* the inventory was read, successfully or not
ParseDone == resources.some \/ FailedAt("parse")

\* get_username has returned
UserDone ==
    \/ pc \in {"resource", "login", "exec", "launched"}
    \/ FailedAt("username") \/ FailedAt("resource") \/ FailedAt("login")

\* ssh_login has returned or panicked
LoginDone == pc \in {"exec", "launched"} \/ FailedAt("login")

\* the text of the file the run reads
ReadText == fs[common.val.res_file].val

\* once LoginDone: the environment and the machine ssh_login was called for
EnvFound == target_env.val \in DOMAIN resources.val.server

EnvDef == resources.val.server[target_env.val]

TargetFound == EnvFound /\ machine_name \in DOMAIN EnvDef

TargetDef == EnvDef[machine_name]

HasJump == TargetDef.jump.some

JumpFound == TargetDef.jump.val \in DOMAIN EnvDef

JumpDef == EnvDef[TargetDef.jump.val]

\* the user@ prefix of the resolved username
Prefix == IF user.some THEN user.val \o "@" ELSE ""

DestinationMissing == "targetted machine doesn't have IP or name"

FailedWith(step, msg) ==
    FailedAt(step) /\ outcome.val.tag = "Err" /\ outcome.val.msg = msg

\* d is env:<NAME>
IsEnvDirective(d) ==
    \E k \in 1..(Len(d) + 1) : d = "env:" \o SubSeq(d, k, Len(d))

EnvNameOf(d) ==
    CHOOSE n \in {SubSeq(d, k, Len(d)) : k \in 1..(Len(d) + 1)} : d = "env:" \o n

\* a port as the caller wrote it, without its sign and leading zeros
RECURSIVE StripZeros(_)
StripZeros(t) ==
    IF Len(t) > 1 /\ Head(t) = "0" THEN StripZeros(Tail(t)) ELSE t

Canonical(t) == StripZeros(IF t # "" /\ Head(t) = "+" THEN Tail(t) ELSE t)

Lines == {stdout[i] : i \in 1..Len(stdout)}

----------------------------------------------------------------------------
(* C1: a machine whose jump field names a machine of the same environment  *)
(* gets a -J argument built from that machine's ip (behind user@ when a    *)
(* username was resolved) when it has one, and otherwise ssh_login returns *)
(* an error to its caller: no plan, and no abort of the process.           *)
C1_JumpUsesIpOrReturnsError ==
    (LoginDone /\ TargetFound /\ HasJump /\ JumpFound) =>
        IF JumpDef.ip.some
        THEN ssh_opt.some =>
                /\ Len(ssh_opt.val.args) = 3
                /\ ssh_opt.val.args[2] = "-J"
                /\ ssh_opt.val.args[3] = Prefix \o JumpDef.ip.val
        ELSE /\ ~ssh_opt.some
             /\ FailedAt("login")
             /\ outcome.val.tag = "Err"

(* C2, as claimed: whenever ssh_login returns for a machine with neither   *)
(* ip nor name, it returns no plan but DestinationMissing, whatever the    *)
(* jump field of the machine is.                                           *)
C2_AlwaysDestinationMissing ==
    (/\ LoginDone /\ pc # "panic" /\ TargetFound
     /\ ~TargetDef.ip.some /\ ~TargetDef.name.some) =>
        /\ ~ssh_opt.some
        /\ FailedWith("login", DestinationMissing)

(* C2, amended: a machine with neither ip nor name never gets a plan and   *)
(* no process is launched; ssh_login fails with DestinationMissing when    *)
(* the entry has no jump field or its jump field names a machine of the    *)
(* environment that has an ip; a jump field naming a machine the           *)
(* environment lacks fails the jump lookup first (cannot find <jump>), and *)
(* one naming a machine without ip ends the run at the jump step, before   *)
(* the destination is looked at.                                           *)
C2_NoDestinationNeverPlans ==
    (LoginDone /\ TargetFound /\ ~TargetDef.ip.some /\ ~TargetDef.name.some) =>
        /\ ~ssh_opt.some
        /\ command = None
        /\ FailedAt("login")
        /\ IF ~HasJump \/ (JumpFound /\ JumpDef.ip.some)
           THEN FailedWith("login", DestinationMissing)
           ELSE IF ~JumpFound
           THEN FailedWith("login", "cannot find " \o TargetDef.jump.val)
           ELSE outcome.val.msg # DestinationMissing

C2_Witness ==
    /\ LoginDone /\ TargetFound
    /\ ~TargetDef.ip.some /\ ~TargetDef.name.some
    /\ HasJump /\ ~JumpFound
    /\ FailedWith("login", "cannot find ghost")

(* C3: an external process is launched only in a run whose inventory was   *)
(* read and parsed, whose username directive resolved, whose environment,  *)
(* machine, jump machine and (for a tunnel) resource were found and whose  *)
(* plan has a jump ip and a destination; a run that failed has launched    *)
(* nothing and stays failed.                                               *)
C3_LaunchOnlyAfterPlan ==
    /\ command.some =>
        /\ pc = "launched"
        /\ outcome = None
        /\ common.some /\ resources.some /\ ssh_opt.some
        /\ fs[common.val.res_file].some
        /\ ReadText.toml /\ ReadText.server.some
        /\ \/ ~ReadText.username.some
           \/ ~IsEnvDirective(ReadText.username.val)
           \/ EnvNameOf(ReadText.username.val) \in DOMAIN environ
        /\ argv.cmd = "tunnel" =>
              /\ target_env.val \in DOMAIN resources.val.resource
              /\ argv.resource \in DOMAIN resources.val.resource[target_env.val]
        /\ TargetFound
        /\ HasJump => (JumpFound /\ JumpDef.ip.some)
        /\ TargetDef.ip.some \/ TargetDef.name.some
    /\ outcome.some => (command = None /\ pc \in {"error", "panic"})
    /\ pc \in {"error", "panic"} => outcome.some

C3_Witness ==
    /\ pc = "launched"
    /\ argv.cmd = "tunnel"
    /\ command.some
    /\ HasJump
    /\ user.some

(* C4: get_username is a case split: no directive gives no username;       *)
(* env:<NAME> with NAME unset fails with the error naming NAME; env:<NAME> *)
(* with NAME set gives its value; any other directive is the username      *)
(* itself, whatever the environment holds. The resolved value is the       *)
(* user@ prefix of the destination and of the jump argument.               *)
C4_UsernameResolution ==
    /\ UserDone =>
        LET d == resources.val.username IN
        IF ~d.some THEN user = None /\ ~FailedAt("username")
        ELSE IF IsEnvDirective(d.val)
        THEN IF EnvNameOf(d.val) \in DOMAIN environ
             THEN user = Some(environ[EnvNameOf(d.val)]) /\ ~FailedAt("username")
             ELSE FailedWith("username",
                     "Cannot find environment variable " \o EnvNameOf(d.val))
        ELSE user = Some(d.val) /\ ~FailedAt("username")
    /\ ssh_opt.some =>
        /\ ssh_opt.val.dest \in
              {Prefix \o h.val : h \in {x \in {TargetDef.ip, TargetDef.name} : x.some}}
        /\ HasJump => ssh_opt.val.args[3] = Prefix \o JumpDef.ip.val

C4_Witness ==
    /\ pc = "launched"
    /\ resources.val.username = Some("env:F")
    /\ user = Some("bob")
    /\ HasJump
    /\ ssh_opt.val.dest = "bob@10.0.0.5"
    /\ ssh_opt.val.args[3] = "bob@10.0.0.1"

(* C5: the argument a tunnel passes after -N -L is localPort:at:port, with *)
(* the caller's local port when one is given and the port of the resource  *)
(* otherwise; at and port are those of the resource in both cases.         *)
C5_ForwardingSpec ==
    (pc = "launched" /\ argv.cmd = "tunnel") =>
        LET a == command.val.args
            n == Len(a)
            r == resources.val.resource[target_env.val][argv.resource]
            lp == IF argv.local_port.some THEN Canonical(argv.local_port.val)
                  ELSE ToString(r.port)
        IN  /\ n >= 4
            /\ a[n - 3] = "-N"
            /\ a[n - 2] = "-L"
            /\ a[n - 1] = lp \o ":" \o r.at \o ":" \o ToString(r.port)

C5_Witness ==
    /\ pc = "launched"
    /\ argv.cmd = "tunnel"
    /\ argv.local_port = Some("9999")
    /\ command.val.args[Len(command.val.args) - 1] = "9999:127.0.0.1:5432"

(* C6: an inventory file with a server section and no resource section     *)
(* loads, with an empty resource set.                                      *)
C6_MissingResourceSectionLoads ==
    (/\ ParseDone
     /\ fs[common.val.res_file].some
     /\ ReadText.toml /\ ReadText.server.some /\ ~ReadText.resource.some) =>
        /\ ~FailedAt("parse")
        /\ resources.some
        /\ DOMAIN resources.val.resource = {}

(* C7: without -r the inventory is the file of the working directory when  *)
(* it exists, else the file under the home directory when it exists, else  *)
(* the load fails; with -r it is that file alone.                          *)
LoadedFrom(file) ==
    IF ~fs[file].some THEN FailedAt("parse") /\ outcome.val.tag = "Err"
    ELSE IF from_str(fs[file].val).tag = "Ok"
    THEN resources = Some(from_str(fs[file].val).val)
    ELSE FailedWith("parse", from_str(fs[file].val).msg)

C7_FallbackChain ==
    ParseDone =>
        IF argv.res_file.some THEN LoadedFrom(argv.res_file.val)
        ELSE IF fs[LocalFile].some THEN LoadedFrom(LocalFile)
        ELSE LoadedFrom(HomeFile)

(* C8: listing an environment prints exactly the keys whose proxy flag is  *)
(* false or unset, each once; the flag does not hide a machine from        *)
(* get_machine, as a target or as a jump machine.                          *)
C8_ListExactlyNonProxies ==
    /\ (pc = "done" /\ argv.cmd = "list" /\ target_env.some) =>
        /\ Lines = {k \in DOMAIN EnvDef : EnvDef[k].proxy # Some(TRUE)}
        /\ Len(stdout) = Cardinality(Lines)
    /\ (LoginDone /\ TargetFound) =>
        ~FailedWith("login", "cannot find " \o machine_name)
    /\ (LoginDone /\ TargetFound /\ HasJump /\ JumpFound) =>
        ~FailedWith("login", "cannot find " \o TargetDef.jump.val)

C8_Witness ==
    /\ pc = "done" /\ argv.cmd = "list" /\ target_env = Some("alpha")
    /\ EnvDef["a"].proxy = Some(TRUE)
    /\ EnvDef["j"].proxy = None
    /\ stdout = <<"j">>

(* C9: the destination of a plan is the ip of the machine when it has one, *)
(* its name otherwise, behind user@ when a username was resolved.          *)
C9_DestinationPrefersIp ==
    ssh_opt.some =>
        ssh_opt.val.dest =
            Prefix \o (IF TargetDef.ip.some THEN TargetDef.ip.val
                       ELSE TargetDef.name.val)

C9_Witness ==
    /\ ssh_opt.some
    /\ TargetDef.ip.some /\ TargetDef.name.some
    /\ user = Some("al")
    /\ ssh_opt.val.dest = "al@10.0.0.5"

(* C10: the options of a plan are the known-hosts override of the          *)
(* environment and then, exactly when the machine has a jump field, -J     *)
(* with the ip of the machine it names; the jump machine's own jump field  *)
(* adds nothing and fails nothing; ssh gets these options in that order    *)
(* and the destination last.                                               *)
C10_OptionOrder ==
    /\ ssh_opt.some =>
        ssh_opt.val.args =
            <<"-oUserKnownHostsFile=" \o home_dir.val
                \o "/.ssh/known_hosts_machlist_" \o target_env.val>>
            \o (IF HasJump THEN <<"-J", Prefix \o JumpDef.ip.val>> ELSE <<>>)
    /\ (/\ LoginDone /\ TargetFound
        /\ TargetDef.ip.some \/ TargetDef.name.some
        /\ HasJump => (JumpFound /\ JumpDef.ip.some)) => ssh_opt.some
    /\ (pc = "launched" /\ argv.cmd \in {"shell", "tunnel"}) =>
        LET a == command.val.args
            k == IF argv.verbose > 0 THEN 1 ELSE 0
        IN  /\ command.val.program = "ssh"
            /\ a[Len(a)] = ssh_opt.val.dest
            /\ SubSeq(a, k + 1, k + Len(ssh_opt.val.args)) = ssh_opt.val.args

C10_Witness ==
    /\ pc = "launched" /\ argv.cmd = "shell"
    /\ HasJump /\ JumpDef.jump = Some("ghost")
    /\ Len(ssh_opt.val.args) = 3
    /\ command.val.args[Len(command.val.args)] = ssh_opt.val.dest

====
